---- MODULE Spec2Model ----
(***************************************************************************)
(* Model of the vhost-user-fs virtio device (hw/virtio/vhost-user-fs.c):   *)
(* the DAX cache window, the backend map/unmap request handlers and the    *)
(* start/stop state machine of the vhost transport.                        *)
(***************************************************************************)
EXTENDS Integers, Sequences, FiniteSets, TLC

VARIABLES
    pc,               \* "unrealized" | "realized" | "failed" | "destroyed"
    target_ppc64,     \* the build: TARGET_PPC64 && CONFIG_LINUX
    conf,             \* VHostUserFSConf and the bus class of the device
    held,             \* resources acquired by realize and not released yet
    cache_host,       \* host address of fs->cache, 0 while there is none
    errp,             \* the error realize reported, "" if none
    cache,            \* pages of fs->cache: page index -> page mapping
    req,              \* backend request in flight on the vhost-user channel
    before,           \* the window's pages when req arrived
    calls,            \* mmap calls issued by the handler of req, in order
    started,          \* fs->vhost_dev.started
    host_notifiers,   \* host notifiers enabled
    guest_notifiers,  \* guest notifiers bound
    ops,              \* calls made by the last realize, status change or unrealize
    prev,             \* the last status change: what was asked, and the state it found
    chk               \* a range handed to the range check, and the verdict

vars == <<pc, target_ppc64, conf, held, cache_host, errp, cache, req, before, calls,
          started, host_notifiers, guest_notifiers, ops, prev, chk>>

(***************************************************************************)
(* uint64_t: four 16-bit limbs, least significant first, so that sums wrap *)
(* at 2^64 exactly as in the C code.                                       *)
(***************************************************************************)
LimbBase == 65536

U64 == [1..4 -> 0..(LimbBase - 1)]

\* a small natural number (< 2^31) as a uint64_t
U64Of(n) == <<n % LimbBase, (n \div LimbBase) % LimbBase, 0, 0>>

\* ~(uint64_t)0
ONES == <<LimbBase - 1, LimbBase - 1, LimbBase - 1, LimbBase - 1>>

Carry1(a, b) == (a[1] + b[1]) \div LimbBase
Carry2(a, b) == (a[2] + b[2] + Carry1(a, b)) \div LimbBase
Carry3(a, b) == (a[3] + b[3] + Carry2(a, b)) \div LimbBase
\* the carry out of bit 63: 1 iff the unbounded sum a + b is >= 2^64
Carry4(a, b) == (a[4] + b[4] + Carry3(a, b)) \div LimbBase

\* a + b on uint64_t (wraps modulo 2^64)
Add64(a, b) ==
    << (a[1] + b[1]) % LimbBase,
       (a[2] + b[2] + Carry1(a, b)) % LimbBase,
       (a[3] + b[3] + Carry2(a, b)) % LimbBase,
       (a[4] + b[4] + Carry3(a, b)) % LimbBase >>

\* ~a
Not64(a) == [i \in 1..4 |-> LimbBase - 1 - a[i]]

\* a - b on uint64_t (wraps modulo 2^64)
Sub64(a, b) == Add64(Add64(a, Not64(b)), U64Of(1))

\* a < b on uint64_t
Lt64(a, b) ==
    \/ a[4] < b[4]
    \/ a[4] = b[4] /\ a[3] < b[3]
    \/ a[4] = b[4] /\ a[3] = b[3] /\ a[2] < b[2]
    \/ a[4] = b[4] /\ a[3] = b[3] /\ a[2] = b[2] /\ a[1] < b[1]

Le64(a, b) == ~Lt64(b, a)

IsZero64(a) == a = U64Of(0)

(***************************************************************************)
(* Program constants.                                                      *)
(***************************************************************************)
VHOST_USER_FS_BACKEND_ENTRIES == 8
VHOST_USER_FS_FLAG_MAP_R == 1
VHOST_USER_FS_FLAG_MAP_W == 2
PROT_NONE == 0
PROT_READ == 1
PROT_WRITE == 2
\* PROT_READ when built for TARGET_PPC64 on Linux, PROT_NONE otherwise
DAX_WINDOW_PROT == IF target_ppc64 THEN PROT_READ ELSE PROT_NONE
ENOENT == 2
EBADF == 9
ENOMEM == 12
EINVAL == 22
\* sizeof_field(struct virtio_fs_config, tag)
TAG_SIZE == 36
VIRTQUEUE_MAX_SIZE == 1024
\* qemu_real_host_page_size()
PAGE == 4096

Slots == 0..(VHOST_USER_FS_BACKEND_ENTRIES - 1)

(***************************************************************************)
(* Bounds of the model.                                                    *)
(***************************************************************************)
\* largest cache window configured, in pages
MaxPages == 2
\* largest number of nonzero-length slots in one backend message
MaxUsed == 2
\* highest slot index a backend message uses
MaxSlot == 2
\* largest number of mmap calls the kernel fails while one request is handled
MaxFail == 1

(***************************************************************************)
(* The DAX cache window: one mapping per page.  fd = -1 is anonymous       *)
(* memory; otherwise the page maps file fd at byte offset off.             *)
(***************************************************************************)
\* the window's anonymous memory readable in every build
AnonPage_Readable == [fd |-> -1, prot |-> PROT_READ, off |-> U64Of(0)]

AnonPage == [fd |-> -1, prot |-> DAX_WINDOW_PROT, off |-> U64Of(0)]

\* mmap(NULL, cache_size, DAX_WINDOW_PROT, MAP_ANONYMOUS | MAP_PRIVATE, -1, 0)
BlankCache(cache_size) == [p \in 0..((cache_size \div PAGE) - 1) |-> AnonPage]

\* page p of the window lies in [addr, addr + len) of the host address
\* space, addr being relative to cache_host
Covers(addr, len, p) == Lt64(Sub64(U64Of(p * PAGE), addr), len)

\* errno of mmap(cache_host + addr, len, ..., MAP_FIXED, ...): EINVAL for a
\* zero length or an unaligned address, else what the kernel answers (oserr)
MmapErrno(addr, len, oserr) ==
    IF IsZero64(len) \/ addr[1] % PAGE # 0 THEN EINVAL ELSE oserr

\* the window after a successful mmap(cache_host + addr, len, prot,
\* MAP_FIXED, fd, off)
Mmap(c, addr, len, prot, fd, off) ==
    [p \in DOMAIN c |->
        IF Covers(addr, len, p)
        THEN [fd |-> fd, prot |-> prot,
              off |-> IF fd < 0 THEN U64Of(0)
                      ELSE Add64(off, Sub64(U64Of(p * PAGE), addr))]
        ELSE c[p]]

(***************************************************************************)
(* get_cache                                                               *)
(***************************************************************************)
\* "if (!cache_size)" tests the out-parameter pointer, which is never NULL:
\* the -ENOENT branch is not taken for any configuration
get_cache(cfg) ==
    [res |-> 0, cache_size |-> cfg.cache_size]

(***************************************************************************)
(* map_in_cache                                                            *)
(***************************************************************************)
\* BadRange without its test for overflow
BadRange_NoOverflowTest(e_cache_offset, e_len, cache_size) ==
    Lt64(U64Of(cache_size), Add64(e_cache_offset, e_len))

\* RangeTest without its test for overflow
RangeTest_SizeOnly(e_cache_offset, e_len, size) ==
    Lt64(size, Add64(e_cache_offset, e_len))

\* (e_cache_offset + e_len) < e_len || (e_cache_offset + e_len) > cache_size
\* with all three operands 64 bits wide
RangeTest(e_cache_offset, e_len, size) ==
    \/ Lt64(Add64(e_cache_offset, e_len), e_len)
    \/ Lt64(size, Add64(e_cache_offset, e_len))

\* the test on the size_t cache_size of a configured window
BadRange(e_cache_offset, e_len, cache_size) ==
    RangeTest(e_cache_offset, e_len, U64Of(cache_size))

\* the protection with the write flag left out
ProtOf_ReadOnly(e_flags) ==
    IF (e_flags \div VHOST_USER_FS_FLAG_MAP_R) % 2 = 1 THEN PROT_READ ELSE 0

\* ((e_flags & MAP_R) ? PROT_READ : 0) | ((e_flags & MAP_W) ? PROT_WRITE : 0)
ProtOf(e_flags) ==
    (IF (e_flags \div VHOST_USER_FS_FLAG_MAP_R) % 2 = 1 THEN PROT_READ ELSE 0)
    + (IF (e_flags \div VHOST_USER_FS_FLAG_MAP_W) % 2 = 1 THEN PROT_WRITE ELSE 0)

PlaceCall(i, msg, fd, err) ==
    [op |-> "place", slot |-> i, addr |-> msg.cache_offset[i],
     len |-> msg.len[i], prot |-> ProtOf(msg.flags[i]), fd |-> fd,
     off |-> msg.fd_offset[i], err |-> err]

\* map_in_cache going on to the next entry after a failure, as unmap does
MapBreaks_Never(res) == FALSE

\* a failing entry ends the loop of map_in_cache (the two break statements)
MapBreaks(res) == res # 0

\* the for loop of map_in_cache from slot i on; perr[i] is what the kernel
\* answers to the mmap of slot i
RECURSIVE MapLoop(_, _, _, _, _, _, _, _)
MapLoop(i, c, cs, res, cache_size, msg, fd, perr) ==
    IF i >= VHOST_USER_FS_BACKEND_ENTRIES
    THEN [cache |-> c, calls |-> cs, res |-> res]
    ELSE IF IsZero64(msg.len[i])
    THEN MapLoop(i + 1, c, cs, res, cache_size, msg, fd, perr)
    ELSE IF BadRange(msg.cache_offset[i], msg.len[i], cache_size)
    THEN IF MapBreaks(-EINVAL)
         THEN [cache |-> c, calls |-> cs, res |-> -EINVAL]
         ELSE MapLoop(i + 1, c, cs, -EINVAL, cache_size, msg, fd, perr)
    ELSE LET err == MmapErrno(msg.cache_offset[i], msg.len[i], perr[i])
             call == PlaceCall(i, msg, fd, err)
         IN  IF err # 0
             THEN IF MapBreaks(-err)
                  THEN [cache |-> c, calls |-> Append(cs, call), res |-> -err]
                  ELSE MapLoop(i + 1, c, Append(cs, call), -err, cache_size,
                               msg, fd, perr)
             ELSE MapLoop(i + 1,
                          Mmap(c, call.addr, call.len, call.prot, fd, call.off),
                          Append(cs, call), res, cache_size, msg, fd, perr)

map_in_cache(c, cache_size, msg, fd, perr) ==
    IF fd < 0
    THEN [cache |-> c, calls |-> <<>>, res |-> -EBADF]
    ELSE MapLoop(0, c, <<>>, 0, cache_size, msg, fd, perr)

(***************************************************************************)
(* unmap_in_cache                                                          *)
(***************************************************************************)
\* i < VHOST_USER_FS_BACKEND_ENTRIES && msg->len[i]
UnmapLoopCond(i, msg) ==
    i < VHOST_USER_FS_BACKEND_ENTRIES /\ ~IsZero64(msg.len[i])

\* unmap_in_cache without the whole-arena special case
ArenaLen_NoSentinel(e_len, cache_size) == e_len

\* if (e_len == ~(uint64_t)0) e_len = cache_size
ArenaLen(e_len, cache_size) ==
    IF e_len = ONES THEN U64Of(cache_size) ELSE e_len

ClearCall(i, msg, e_len, err) ==
    [op |-> "clear", slot |-> i, addr |-> msg.cache_offset[i],
     len |-> e_len, prot |-> DAX_WINDOW_PROT, fd |-> -1,
     off |-> U64Of(0), err |-> err]

\* the for loop of unmap_in_cache from slot i on; cerr[i] is what the kernel
\* answers to the mmap of slot i
RECURSIVE UnmapLoop(_, _, _, _, _, _, _)
UnmapLoop(i, c, cs, res, cache_size, msg, cerr) ==
    IF ~UnmapLoopCond(i, msg)
    THEN [cache |-> c, calls |-> cs, res |-> res]
    ELSE IF IsZero64(msg.len[i])
    THEN UnmapLoop(i + 1, c, cs, res, cache_size, msg, cerr)
    ELSE LET e_len == ArenaLen(msg.len[i], cache_size)
         IN  IF BadRange(msg.cache_offset[i], e_len, cache_size)
             THEN UnmapLoop(i + 1, c, cs, -EINVAL, cache_size, msg, cerr)
             ELSE LET err == MmapErrno(msg.cache_offset[i], e_len, cerr[i])
                      call == ClearCall(i, msg, e_len, err)
                  IN  IF err # 0
                      THEN UnmapLoop(i + 1, c, Append(cs, call), -err,
                                     cache_size, msg, cerr)
                      ELSE UnmapLoop(i + 1,
                                     Mmap(c, call.addr, call.len, call.prot,
                                          -1, call.off),
                                     Append(cs, call), res, cache_size, msg, cerr)

unmap_in_cache(c, cache_size, msg, cerr) ==
    UnmapLoop(0, c, <<>>, 0, cache_size, msg, cerr)

(***************************************************************************)
(* vhost_user_fs_backend_map / vhost_user_fs_backend_unmap                 *)
(***************************************************************************)
vhost_user_fs_backend_map(c, cfg, msg, fd, perr, cerr) ==
    LET gc == get_cache(cfg)
    IN  IF gc.res # 0
        THEN [cache |-> c, calls |-> <<>>, res |-> gc.res]
        ELSE LET m == map_in_cache(c, gc.cache_size, msg, fd, perr)
             IN  IF m.res # 0
                 THEN LET u == unmap_in_cache(m.cache, gc.cache_size, msg, cerr)
                      IN  [cache |-> u.cache, calls |-> m.calls \o u.calls,
                           res |-> m.res]
                 ELSE m

vhost_user_fs_backend_unmap(c, cfg, msg, cerr) ==
    LET gc == get_cache(cfg)
    IN  IF gc.res # 0
        THEN [cache |-> c, calls |-> <<>>, res |-> gc.res]
        ELSE unmap_in_cache(c, gc.cache_size, msg, cerr)

(***************************************************************************)
(* vuf_start / vuf_stop / vuf_set_status                                   *)
(***************************************************************************)
\* k->set_guest_notifiers(qbus->parent, nvqs, assign): a failed call leaves
\* the notifiers as they were
set_guest_notifiers(bound, assign, ok) == IF ok THEN assign ELSE bound

Op(name, ok) == [op |-> name, ok |-> ok]

\* dev = [started, host_notifiers, guest_notifiers, ops]; the e_* are the
\* outcomes of the calls into the vhost and bus layers
vuf_start(dev, k, e_enable, e_bind, e_start, e_unbind) ==
    IF ~k
    THEN dev
    ELSE IF ~e_enable
    THEN [dev EXCEPT !.ops = <<Op("enable_host", FALSE)>>]
    ELSE IF ~e_bind
    THEN \* goto err_host_notifiers
         [dev EXCEPT !.host_notifiers = FALSE,
                     !.ops = <<Op("enable_host", TRUE), Op("bind_guest", FALSE),
                               Op("disable_host", TRUE)>>]
    ELSE IF ~e_start
    THEN \* goto err_guest_notifiers
         [dev EXCEPT !.host_notifiers = FALSE,
                     !.guest_notifiers = set_guest_notifiers(TRUE, FALSE, e_unbind),
                     !.ops = <<Op("enable_host", TRUE), Op("bind_guest", TRUE),
                               Op("dev_start", FALSE), Op("unbind_guest", e_unbind),
                               Op("disable_host", TRUE)>>]
    ELSE [dev EXCEPT !.started = TRUE,
                     !.host_notifiers = TRUE,
                     !.guest_notifiers = TRUE,
                     !.ops = <<Op("enable_host", TRUE), Op("bind_guest", TRUE),
                               Op("dev_start", TRUE), Op("unmask", TRUE)>>]

vuf_stop(dev, k, e_unbind) ==
    IF ~k
    THEN dev
    ELSE IF ~e_unbind
    THEN [dev EXCEPT !.started = FALSE,
                     !.guest_notifiers =
                         set_guest_notifiers(dev.guest_notifiers, FALSE, FALSE),
                     !.ops = <<Op("dev_stop", TRUE), Op("unbind_guest", FALSE)>>]
    ELSE [dev EXCEPT !.started = FALSE,
                     !.guest_notifiers =
                         set_guest_notifiers(dev.guest_notifiers, FALSE, TRUE),
                     !.host_notifiers = FALSE,
                     !.ops = <<Op("dev_stop", TRUE), Op("unbind_guest", TRUE),
                               Op("disable_host", TRUE)>>]

\* vuf_set_status without its comparison with vhost_dev_is_started
vuf_set_status_NoGuard(dev, k, should_start, e_enable, e_bind, e_start, e_unbind) ==
    IF should_start
    THEN vuf_start(dev, k, e_enable, e_bind, e_start, e_unbind)
    ELSE vuf_stop(dev, k, e_unbind)

vuf_set_status(dev, k, should_start, e_enable, e_bind, e_start, e_unbind) ==
    IF dev.started = should_start
    THEN dev
    ELSE IF should_start
    THEN vuf_start(dev, k, e_enable, e_bind, e_start, e_unbind)
    ELSE vuf_stop(dev, k, e_unbind)

(***************************************************************************)
(* vuf_device_realize                                                      *)
(***************************************************************************)
RECURSIVE Pow2(_)
Pow2(n) == IF n = 0 THEN 1 ELSE 2 * Pow2(n - 1)

\* is_power_of_2
is_power_of_2(n) == \E b \in 0..30 : n = Pow2(b)

\* the cache-size check of realize without its comparison with the page size
CacheSizeOk_NoPageTest(cache_size) ==
    ~(cache_size # 0 /\ ~is_power_of_2(cache_size))

\* the cache-size check of vuf_device_realize
CacheSizeOk(cache_size) ==
    ~(cache_size # 0 /\ (~is_power_of_2(cache_size) \/ cache_size < PAGE))

\* what realize acquires after the window: vhost_user_init, virtio_init,
\* virtio_add_queue (hiprio and request queues), g_new of req_vqs and of
\* vhost_dev.vqs, vhost_dev_init
TransportResources ==
    {"vhost_user", "virtio", "queues", "req_vqs", "vhost_vqs", "vhost_dev"}

\* a return of realize with errp set
RealizeError(msg, h, ptr, o) ==
    [ok |-> FALSE, err |-> msg, held |-> h, cache_host |-> ptr, ops |-> o]

\* cfg.tag is strlen(conf.tag), or -1 for a NULL tag; ptr is the address the
\* kernel picks for the window; e_mmap, e_user and e_dev are whether mmap,
\* vhost_user_init and vhost_dev_init succeed
vuf_device_realize(cfg, ptr, e_mmap, e_user, e_dev) ==
    IF ~cfg.chardev
    THEN RealizeError("missing chardev", {}, 0, <<>>)
    ELSE IF cfg.tag = -1
    THEN RealizeError("missing tag property", {}, 0, <<>>)
    ELSE IF cfg.tag = 0
    THEN RealizeError("tag property cannot be empty", {}, 0, <<>>)
    ELSE IF cfg.tag > TAG_SIZE
    THEN RealizeError("tag property too long", {}, 0, <<>>)
    ELSE IF cfg.num_request_queues = 0
    THEN RealizeError("num-request-queues property must be larger than 0", {}, 0, <<>>)
    ELSE IF ~is_power_of_2(cfg.queue_size)
    THEN RealizeError("queue-size property must be a power of 2", {}, 0, <<>>)
    ELSE IF cfg.queue_size > VIRTQUEUE_MAX_SIZE
    THEN RealizeError("queue-size property too large", {}, 0, <<>>)
    ELSE IF ~CacheSizeOk(cfg.cache_size)
    THEN RealizeError("cache-size property must be a power of 2 no smaller than the page size",
                      {}, 0, <<>>)
    ELSE IF cfg.cache_size # 0 /\ ~e_mmap
    THEN RealizeError("Unable to mmap blank cache", {}, 0, <<Op("mmap", FALSE)>>)
    ELSE LET win  == IF cfg.cache_size # 0 THEN {"cache"} ELSE {}
             base == IF cfg.cache_size # 0 THEN ptr ELSE 0
             o    == IF cfg.cache_size # 0 THEN <<Op("mmap", TRUE)>> ELSE <<>>
         IN  IF ~e_user
             THEN RealizeError("vhost_user_init", win, base,
                               o \o <<Op("vhost_user_init", FALSE)>>)
             ELSE IF ~e_dev
             THEN \* goto err_virtio
                  RealizeError("vhost_dev_init", win, base,
                      o \o <<Op("vhost_user_init", TRUE), Op("virtio_init", TRUE),
                             Op("virtio_add_queue", TRUE), Op("vhost_dev_init", FALSE),
                             Op("vhost_user_cleanup", TRUE),
                             Op("virtio_delete_queue", TRUE), Op("g_free_req_vqs", TRUE),
                             Op("virtio_cleanup", TRUE), Op("g_free_vqs", TRUE)>>)
             ELSE [ok |-> TRUE, err |-> "", held |-> win \cup TransportResources,
                   cache_host |-> base,
                   ops |-> o \o <<Op("vhost_user_init", TRUE), Op("virtio_init", TRUE),
                                  Op("virtio_add_queue", TRUE),
                                  Op("vhost_dev_init", TRUE)>>]

(***************************************************************************)
(* vuf_device_unrealize                                                    *)
(***************************************************************************)
\* dev as for vuf_set_status, h the resources held; status 0 never asks for
\* a start
vuf_device_unrealize(dev, k, h, e_unbind) ==
    LET d == vuf_set_status(dev, k, FALSE, TRUE, TRUE, TRUE, e_unbind)
    IN  [dev  |-> [d EXCEPT !.ops =
                      d.ops \o <<Op("vhost_dev_cleanup", TRUE),
                                 Op("vhost_user_cleanup", TRUE),
                                 Op("virtio_delete_queue", TRUE),
                                 Op("g_free_req_vqs", TRUE),
                                 Op("virtio_cleanup", TRUE),
                                 Op("g_free_vqs", TRUE)>>],
         held |-> h \ TransportResources]

(***************************************************************************)
(* Inputs.                                                                 *)
(***************************************************************************)
CacheSizes ==
    {0, PAGE - 1096, PAGE \div 2, PAGE + PAGE \div 2} \cup {PAGE * n : n \in 1..MaxPages}

\* the other properties of the device: valid, or with one of them invalid
GoodProps == [chardev |-> TRUE, tag |-> 5, num_request_queues |-> 1, queue_size |-> 128]
Props ==
    {GoodProps, [GoodProps EXCEPT !.chardev = FALSE]}
    \cup {[GoodProps EXCEPT !.tag = t] : t \in {-1, 0, TAG_SIZE + 1}}
    \cup {[GoodProps EXCEPT !.num_request_queues = 0]}
    \cup {[GoodProps EXCEPT !.queue_size = q] : q \in {100, 2 * VIRTQUEUE_MAX_SIZE}}

\* VHostUserFSConf, with whether the bus class has set_guest_notifiers
Confs ==
    {[cache_size |-> s, set_guest_notifiers |-> k, chardev |-> p.chardev,
      tag |-> p.tag, num_request_queues |-> p.num_request_queues,
      queue_size |-> p.queue_size] :
        s \in CacheSizes, k \in BOOLEAN, p \in Props}

\* addresses the kernel may pick for the window
CacheHosts == {16 * PAGE, 48 * PAGE}

\* 2^64 - PAGE
NegPage == Sub64(U64Of(0), U64Of(PAGE))

CacheOffsets == {U64Of(0), U64Of(PAGE)}
MapLens == {U64Of(PAGE), U64Of(2 * PAGE), ONES}
UnmapLens == MapLens \cup {NegPage}
\* <<fd_offset, flags>>
Views == {<<U64Of(0), 0>>, <<U64Of(0), VHOST_USER_FS_FLAG_MAP_R>>,
          <<U64Of(PAGE), VHOST_USER_FS_FLAG_MAP_R + VHOST_USER_FS_FLAG_MAP_W>>}
Fds == {-1, 3}

Entry(fo, co, l, fl) ==
    [fd_offset |-> fo, cache_offset |-> co, len |-> l, flags |-> fl]

MapEntries == {Entry(v[1], co, l, v[2]) : v \in Views, co \in CacheOffsets, l \in MapLens}
UnmapEntries == {Entry(U64Of(0), co, l, 0) : co \in CacheOffsets, l \in UnmapLens}

\* the sets of used (nonzero-length) slots of a message
Layouts ==
    {S \in SUBSET (0..MaxSlot) : Cardinality(S) <= MaxUsed}
    \cup {{VHOST_USER_FS_BACKEND_ENTRIES - 1}}

\* VhostUserFSBackendMsg with entry f[i] in slot i of S, other slots unused
MkMsg(S, f) ==
    [fd_offset    |-> [i \in Slots |-> IF i \in S THEN f[i].fd_offset ELSE U64Of(0)],
     cache_offset |-> [i \in Slots |-> IF i \in S THEN f[i].cache_offset ELSE U64Of(0)],
     len          |-> [i \in Slots |-> IF i \in S THEN f[i].len ELSE U64Of(0)],
     flags        |-> [i \in Slots |-> IF i \in S THEN f[i].flags ELSE 0]]

Used(msg) == {i \in Slots : ~IsZero64(msg.len[i])}

\* kernel answers for the mmap of each slot: failing for the slots of F
ErrOf(F) == [i \in Slots |-> IF i \in F THEN ENOMEM ELSE 0]

NoReq == [kind |-> "none"]
NoPrev == [kind |-> "none"]
NoChk == [state |-> "none"]

(***************************************************************************)
(* State machine.                                                          *)
(***************************************************************************)
winVars == <<cache, req, before, calls>>
devVars == <<started, host_notifiers, guest_notifiers, ops>>
lifeVars == <<target_ppc64, held, cache_host, errp, prev, chk>>

Init ==
    /\ pc = "unrealized"
    /\ target_ppc64 \in BOOLEAN
    /\ conf \in Confs
    /\ held = {}
    /\ cache_host = 0
    /\ errp = ""
    /\ prev = NoPrev
    /\ chk = NoChk
    /\ cache = <<>>
    /\ req = NoReq
    /\ before = <<>>
    /\ calls = <<>>
    /\ started = FALSE
    /\ host_notifiers = FALSE
    /\ guest_notifiers = FALSE
    /\ ops = <<>>

\* vuf_device_realize, the kernel picking the window's address among hosts
Realize(hosts) ==
    /\ pc = "unrealized"
    /\ \E ptr \in hosts : \E e_mmap, e_user, e_dev \in BOOLEAN :
         LET r == vuf_device_realize(conf, ptr, e_mmap, e_user, e_dev)
         IN  /\ pc' = IF r.ok THEN "realized" ELSE "failed"
             /\ held' = r.held
             /\ cache_host' = r.cache_host
             /\ errp' = r.err
             /\ cache' = IF "cache" \in r.held THEN BlankCache(conf.cache_size)
                         ELSE cache
             /\ ops' = r.ops
    /\ UNCHANGED <<target_ppc64, conf, req, before, calls, started,
                   host_notifiers, guest_notifiers, prev, chk>>

\* the backend sends a map request with its file descriptor
BackendMap(layouts, entries) ==
    /\ pc = "realized"
    /\ req.kind = "none"
    /\ \E S \in layouts : \E f \in [S -> entries] : \E fd \in Fds :
         req' = [kind |-> "map", msg |-> MkMsg(S, f), fd |-> fd,
                 state |-> "pending", res |-> 0]
    /\ before' = cache
    /\ calls' = <<>>
    /\ UNCHANGED <<pc, conf, cache, devVars, lifeVars>>

\* the backend sends an unmap request
BackendUnmap(layouts, entries) ==
    /\ pc = "realized"
    /\ req.kind = "none"
    /\ \E S \in layouts : \E f \in [S -> entries] :
         req' = [kind |-> "unmap", msg |-> MkMsg(S, f), fd |-> -1,
                 state |-> "pending", res |-> 0]
    /\ before' = cache
    /\ calls' = <<>>
    /\ UNCHANGED <<pc, conf, cache, devVars, lifeVars>>

\* vhost_user_fs_backend_map on the request in flight
HandleMap ==
    /\ req.kind = "map"
    /\ req.state = "pending"
    /\ \E P \in SUBSET Used(req.msg) : \E C \in SUBSET Used(req.msg) :
         /\ Cardinality(P) + Cardinality(C) <= MaxFail
         /\ LET r == vhost_user_fs_backend_map(cache, conf, req.msg, req.fd,
                                               ErrOf(P), ErrOf(C))
            IN  /\ cache' = r.cache
                /\ calls' = r.calls
                /\ req' = [req EXCEPT !.state = "done", !.res = r.res]
    /\ UNCHANGED <<pc, conf, before, devVars, lifeVars>>

\* vhost_user_fs_backend_unmap on the request in flight
HandleUnmap ==
    /\ req.kind = "unmap"
    /\ req.state = "pending"
    /\ \E C \in SUBSET Used(req.msg) :
         /\ Cardinality(C) <= MaxFail
         /\ LET r == vhost_user_fs_backend_unmap(cache, conf, req.msg, ErrOf(C))
            IN  /\ cache' = r.cache
                /\ calls' = r.calls
                /\ req' = [req EXCEPT !.state = "done", !.res = r.res]
    /\ UNCHANGED <<pc, conf, before, devVars, lifeVars>>

\* the result is sent back to the backend and the request is dropped
Reply ==
    /\ req.kind # "none"
    /\ req.state = "done"
    /\ req' = NoReq
    /\ before' = <<>>
    /\ calls' = <<>>
    /\ UNCHANGED <<pc, conf, cache, devVars, lifeVars>>

\* vuf_set_status on the device's transport state
StatusChange ==
    /\ pc = "realized"
    /\ \E should_start, e_enable, e_bind, e_start, e_unbind \in BOOLEAN :
         LET d == vuf_set_status(
                      [started |-> started, host_notifiers |-> host_notifiers,
                       guest_notifiers |-> guest_notifiers, ops |-> <<>>],
                      conf.set_guest_notifiers,
                      should_start, e_enable, e_bind, e_start, e_unbind)
         IN  /\ started' = d.started
             /\ host_notifiers' = d.host_notifiers
             /\ guest_notifiers' = d.guest_notifiers
             /\ ops' = d.ops
             /\ prev' = [kind |-> "set_status", should_start |-> should_start,
                         started |-> started, host_notifiers |-> host_notifiers,
                         guest_notifiers |-> guest_notifiers]

\* a status change that hands the window's pages back to anonymous memory
SetStatus_DropsWindow ==
    /\ StatusChange
    /\ cache' = [p \in DOMAIN cache |-> AnonPage]
    /\ UNCHANGED <<pc, conf, req, before, calls, target_ppc64, held, cache_host,
                   errp, chk>>

\* vuf_set_status: nothing of the window is touched
SetStatus ==
    /\ StatusChange
    /\ UNCHANGED <<pc, conf, winVars, target_ppc64, held, cache_host, errp, chk>>

\* vuf_device_unrealize, with no request in flight
Unrealize ==
    /\ pc = "realized"
    /\ req.kind = "none"
    /\ \E e_unbind \in BOOLEAN :
         LET u == vuf_device_unrealize(
                      [started |-> started, host_notifiers |-> host_notifiers,
                       guest_notifiers |-> guest_notifiers, ops |-> <<>>],
                      conf.set_guest_notifiers, held, e_unbind)
         IN  /\ started' = u.dev.started
             /\ host_notifiers' = u.dev.host_notifiers
             /\ guest_notifiers' = u.dev.guest_notifiers
             /\ ops' = u.dev.ops
             /\ held' = u.held
             /\ prev' = [kind |-> "unrealize", should_start |-> FALSE,
                         started |-> started, host_notifiers |-> host_notifiers,
                         guest_notifiers |-> guest_notifiers]
    /\ pc' = "destroyed"
    /\ UNCHANGED <<conf, winVars, target_ppc64, cache_host, errp, chk>>

\* the window and its request processor alone, in a build whose
\* DAX_WINDOW_PROT is PROT_NONE
InitWindow == Init /\ conf.set_guest_notifiers /\ ~target_ppc64

NextWindow ==
    \/ Realize({16 * PAGE})
    \/ BackendMap(Layouts, MapEntries)
    \/ BackendUnmap(Layouts, UnmapEntries)
    \/ HandleMap
    \/ HandleUnmap
    \/ Reply

SpecWindow == InitWindow /\ [][NextWindow]_vars

\* the whole device: status changes interleaved with backend requests, the
\* requests drawn from fewer entries in the first two slots
DevLayouts == SUBSET {0, 1}
DevMapEntries ==
    {e \in MapEntries : e.cache_offset = U64Of(0) /\ e.len # U64Of(2 * PAGE)
                        /\ e.flags = VHOST_USER_FS_FLAG_MAP_R}
DevUnmapEntries ==
    {e \in UnmapEntries : e.cache_offset = U64Of(0) /\ e.len \in {U64Of(PAGE), ONES}}

Next ==
    \/ Realize(CacheHosts)
    \/ BackendMap(DevLayouts, DevMapEntries)
    \/ BackendUnmap(DevLayouts, DevUnmapEntries)
    \/ HandleMap
    \/ HandleUnmap
    \/ Reply
    \/ SetStatus
    \/ Unrealize

Spec == Init /\ [][Next]_vars

\* the range check of map_in_cache and unmap_in_cache alone, on operands
\* from the whole 64-bit range
Pow63 == <<0, 0, 0, LimbBase \div 2>>
RangeOffsets ==
    {U64Of(0), U64Of(1), U64Of(PAGE), Pow63, Sub64(Pow63, U64Of(PAGE)), NegPage, ONES}
RangeLens ==
    {U64Of(1), U64Of(PAGE), U64Of(2 * PAGE), Pow63, NegPage, ONES}
RangeSizes ==
    {U64Of(0), U64Of(PAGE), U64Of(2 * PAGE), Pow63, NegPage, ONES}

InitRange ==
    /\ pc = "unrealized"
    /\ target_ppc64 = FALSE
    /\ conf \in {c \in Confs : c.cache_size = 0 /\ c.set_guest_notifiers
                                /\ c.chardev /\ c.tag = GoodProps.tag
                                /\ c.num_request_queues = 1 /\ c.queue_size = 128}
    /\ held = {}
    /\ cache_host = 0
    /\ errp = ""
    /\ prev = NoPrev
    /\ cache = <<>>
    /\ req = NoReq
    /\ before = <<>>
    /\ calls = <<>>
    /\ started = FALSE
    /\ host_notifiers = FALSE
    /\ guest_notifiers = FALSE
    /\ ops = <<>>
    /\ \E o \in RangeOffsets : \E l \in RangeLens : \E z \in RangeSizes :
         chk = [state |-> "input", cache_offset |-> o, len |-> l, size |-> z,
                rejected |-> FALSE]

\* the test of lines 149-150 and 201-202 applied to the operands
RangeCheck ==
    /\ chk.state = "input"
    /\ chk' = [chk EXCEPT !.state = "checked",
                          !.rejected = RangeTest(chk.cache_offset, chk.len, chk.size)]
    /\ UNCHANGED <<pc, conf, winVars, devVars, target_ppc64, held, cache_host,
                   errp, prev>>

NextRange == RangeCheck

SpecRange == InitRange /\ [][NextRange]_vars

(***************************************************************************)
(* Vocabulary of the properties.                                           *)
(***************************************************************************)
\* [off, off + len) lies inside [0, size) in unbounded arithmetic: the sum
\* does not carry out of 64 bits and does not exceed size
InWindow(off, len, size) ==
    Carry4(off, len) = 0 /\ Le64(Add64(off, len), U64Of(size))

\* page p of the window grants no access right
NoAccess(p) == cache[p].prot = PROT_NONE

\* page p of the window is no-access anonymous memory, as at creation
Blank(p) == cache[p] = AnonPage

\* pages of the window inside the range an entry names
PagesOf(off, len) == {p \in DOMAIN cache : Covers(off, len, p)}

MapDone == req.kind = "map" /\ req.state = "done"
UnmapDone == req.kind = "unmap" /\ req.state = "done"

Calls(opname) == {k \in 1..Len(calls) : calls[k].op = opname}

\* slot i of the request in flight names a range inside the window
SlotInWindow(i) ==
    InWindow(req.msg.cache_offset[i], req.msg.len[i], conf.cache_size)

\* C1: when a map batch with a valid handle fails, every in-window range
\* named by a nonzero-length entry of the batch is no-access once the error
\* is returned, wherever the zero-length slots sit.  (Runs in which the
\* kernel fails a rollback clear are left aside: they say nothing about
\* the handler.)
C1_MapRollback ==
    (/\ MapDone
     /\ req.fd >= 0
     /\ req.res # 0
     /\ \A k \in Calls("clear") : calls[k].err = 0)
    => \A i \in Used(req.msg) :
          SlotInWindow(i)
          => \A p \in PagesOf(req.msg.cache_offset[i], req.msg.len[i]) :
                NoAccess(p)

\* C2: a map batch with an invalid backend handle (fd < 0) returns -EBADF
\* and issues no remap call at all, neither a place nor a clear.
C2_BadHandle ==
    (MapDone /\ req.fd < 0) => (req.res = -EBADF /\ calls = <<>>)

\* C3: every remap call issued, place or clear, rollback clears included,
\* covers a byte range that lies entirely inside [0, cache_size).
C3_WindowBounds ==
    \A k \in 1..Len(calls) :
        InWindow(calls[k].addr, calls[k].len, conf.cache_size)

C3_Witness ==
    /\ MapDone
    /\ Calls("place") # {}
    /\ Calls("clear") # {}
    /\ \E i \in Used(req.msg) : Carry4(req.msg.cache_offset[i], req.msg.len[i]) = 1
    /\ \E i \in Used(req.msg) : req.msg.len[i] = ONES

\* an entry of the request in flight fails validation: for an unmap entry
\* the whole-window sentinel is resolved to the window size first
SlotInvalid(i) ==
    IF req.kind = "unmap"
    THEN ~InWindow(req.msg.cache_offset[i],
                   IF req.msg.len[i] = ONES THEN U64Of(conf.cache_size)
                   ELSE req.msg.len[i],
                   conf.cache_size)
    ELSE ~SlotInWindow(i)

\* C4: an entry that fails validation never mutates the window: no remap
\* call that takes effect is issued for it, in a map batch (its rollback
\* included) or in an unmap batch.
C4_InvalidNeverRemapped ==
    (req.kind # "none" /\ req.state = "done")
    => \A k \in 1..Len(calls) :
          calls[k].err = 0 => ~SlotInvalid(calls[k].slot)

\* slots for which a call of the given kind was issued
SlotsCalled(opname) == {calls[k].slot : k \in Calls(opname)}

\* slots whose call of the given kind the kernel failed
SlotsFailed(opname) ==
    {calls[k].slot : k \in {j \in Calls(opname) : calls[j].err # 0}}

\* -errno of the call issued for slot i
ErrOfSlot(opname, i) ==
    LET k == CHOOSE j \in Calls(opname) : calls[j].slot = i IN -calls[k].err

Max(S) == CHOOSE x \in S : \A y \in S : y <= x
Min(S) == CHOOSE x \in S : \A y \in S : x <= y

\* calls are issued in slot order
InSlotOrder(opname) ==
    \A j, k \in Calls(opname) : j < k => calls[j].slot < calls[k].slot

\* entries of an unmap batch that fail: at validation or at their clear
UnmapFailing == {i \in Used(req.msg) : SlotInvalid(i)} \cup SlotsFailed("clear")

\* C5: an unmap batch attempts every nonzero-length entry in slot order,
\* clears every entry that passes validation, and returns 0 iff no entry
\* failed, else the error of the last failing entry in slot order.
C5_UnmapBestEffort ==
    UnmapDone
    => /\ InSlotOrder("clear")
       /\ SlotsCalled("clear") = {i \in Used(req.msg) : ~SlotInvalid(i)}
       /\ req.res = IF UnmapFailing = {} THEN 0
                    ELSE IF SlotInvalid(Max(UnmapFailing)) THEN -EINVAL
                    ELSE ErrOfSlot("clear", Max(UnmapFailing))

\* C6: a zero-length slot is skipped and does not end the batch: when all
\* nonzero-length entries of a map (unmap) batch are valid and the kernel
\* fails no call, every one of them is placed (cleared), whatever
\* zero-length slots come before it.
C6_ZeroSlotsSkipped ==
    (/\ req.kind # "none"
     /\ req.state = "done"
     /\ req.kind = "map" => req.fd >= 0
     /\ \A i \in Used(req.msg) : ~SlotInvalid(i)
     /\ \A k \in 1..Len(calls) : calls[k].err = 0)
    => SlotsCalled(IF req.kind = "map" THEN "place" ELSE "clear") = Used(req.msg)

\* slot i is reached by a loop that runs from slot 0 to the first
\* zero-length slot
Leading(i) == \A j \in 0..i : j \in Used(req.msg)

MapFailing == {i \in Used(req.msg) : ~SlotInWindow(i)} \cup SlotsFailed("place")

\* C8: a map batch places its entries in slot order up to the first entry
\* that fails validation or whose place fails, places nothing after it, and
\* returns the error of that entry: -EINVAL for validation, the errno of
\* the kernel for place.
C8_MapStopsAtFirstFailure ==
    (MapDone /\ req.fd >= 0)
    => /\ InSlotOrder("place")
       /\ IF MapFailing = {}
          THEN req.res = 0 /\ SlotsCalled("place") = Used(req.msg)
          ELSE LET F == Min(MapFailing)
               IN  /\ SlotsCalled("place") =
                         {i \in Used(req.msg) : i < F}
                         \cup (IF SlotInWindow(F) THEN {F} ELSE {})
                   /\ req.res = IF SlotInWindow(F) THEN ErrOfSlot("place", F)
                                ELSE -EINVAL

\* an entry whose place the kernel failed, followed by a valid entry that
\* was left unplaced
C8_Witness ==
    /\ MapDone
    /\ req.fd >= 0
    /\ SlotsFailed("place") # {}
    /\ req.res = -ENOMEM
    /\ \E i \in Used(req.msg) :
          i > Min(MapFailing) /\ SlotInWindow(i) /\ i \notin SlotsCalled("place")

\* the access rights an entry's flags ask for: readable and writable each
\* exactly when its flag is set
WantedProt(flags) ==
    (IF flags \in {VHOST_USER_FS_FLAG_MAP_R,
                   VHOST_USER_FS_FLAG_MAP_R + VHOST_USER_FS_FLAG_MAP_W}
     THEN PROT_READ ELSE PROT_NONE)
    + (IF flags \in {VHOST_USER_FS_FLAG_MAP_W,
                     VHOST_USER_FS_FLAG_MAP_R + VHOST_USER_FS_FLAG_MAP_W}
       THEN PROT_WRITE ELSE PROT_NONE)

\* the mapping of page p that entry i of the request asks for
Wanted(i, p) ==
    [fd |-> req.fd, prot |-> WantedProt(req.msg.flags[i]),
     off |-> Add64(req.msg.fd_offset[i],
                   Sub64(U64Of(p * PAGE), req.msg.cache_offset[i]))]

\* the handle is valid, every nonzero-length entry is valid and no place
\* was failed by the kernel
MapAllGood ==
    /\ MapDone
    /\ req.fd >= 0
    /\ \A i \in Used(req.msg) : SlotInWindow(i)
    /\ SlotsFailed("place") = {}

\* C9 as stated: a map batch all of whose entries are good returns success,
\* issues no clear, and leaves every page of every entry's range mapped as
\* that entry says.
C9_EveryRangeAsItsEntry ==
    MapAllGood
    => /\ req.res = 0
       /\ Calls("clear") = {}
       /\ \A i \in Used(req.msg) :
             \A p \in PagesOf(req.msg.cache_offset[i], req.msg.len[i]) :
                cache[p] = Wanted(i, p)

\* the last entry, in slot order, whose range covers page p
LastCovering(p) ==
    Max({i \in Used(req.msg) :
            p \in PagesOf(req.msg.cache_offset[i], req.msg.len[i])})

\* C9 amended: a map batch all of whose entries are good returns success,
\* issues no clear, and leaves every page of every entry's range mapped to
\* the backend file with the file offset and the access rights of the last
\* entry, in slot order, whose range covers the page (no access if that
\* entry sets neither flag); pages outside every range are untouched.
C9_SuccessfulMap ==
    MapAllGood
    => /\ req.res = 0
       /\ Calls("clear") = {}
       /\ \A i \in Used(req.msg) :
             \A p \in PagesOf(req.msg.cache_offset[i], req.msg.len[i]) :
                cache[p] = Wanted(LastCovering(p), p)
       /\ \A p \in DOMAIN cache :
             (\A i \in Used(req.msg) :
                 p \notin PagesOf(req.msg.cache_offset[i], req.msg.len[i]))
             => cache[p] = before[p]

\* a successful batch of two overlapping entries with different rights,
\* the later one readable and writable at a nonzero file offset
C9_Witness ==
    /\ MapAllGood
    /\ req.res = 0
    /\ \E i, j \in Used(req.msg) :
          /\ i < j
          /\ req.msg.flags[i] # req.msg.flags[j]
          /\ WantedProt(req.msg.flags[j]) = PROT_READ + PROT_WRITE
          /\ PagesOf(req.msg.cache_offset[i], req.msg.len[i])
             \cap PagesOf(req.msg.cache_offset[j], req.msg.len[j]) # {}
          /\ PagesOf(req.msg.cache_offset[i], req.msg.len[i])
             \ PagesOf(req.msg.cache_offset[j], req.msg.len[j]) # {}

(***************************************************************************)
(* Properties of the start/stop state machine.                             *)
(***************************************************************************)
\* positions of the calls of the given name in the last status change
OpsAt(name) == {k \in 1..Len(ops) : ops[k].op = name}

\* the last status change was a start that failed at one of its steps
StartFailed ==
    \E k \in 1..Len(ops) :
        ops[k].op \in {"enable_host", "bind_guest", "dev_start"} /\ ~ops[k].ok

\* C10: when start fails at a step, the steps that had succeeded are undone
\* in reverse order (guest notifiers unbound before host notifiers are
\* disabled) and the device is left with the transport not started, guest
\* notifiers unbound and host notifiers disabled.
C10_StartFailureUndo ==
    StartFailed
    => /\ \A k \in OpsAt("bind_guest") :
             ops[k].ok => \E u \in OpsAt("unbind_guest") :
                             \E d \in OpsAt("disable_host") : k < u /\ u < d
       /\ \A k \in OpsAt("enable_host") :
             ops[k].ok => \E d \in OpsAt("disable_host") : k < d
       /\ ~started
       /\ ~guest_notifiers
       /\ ~host_notifiers

\* the last status change, made by set_status or by unrealize, ran stop on
\* a device whose transport was started
StoppedFromActive ==
    prev.kind # "none" /\ ~prev.should_start /\ prev.started

\* C11: after stop is invoked on an Active device, whatever the outcome of
\* its teardown steps, the transport is stopped, guest notifiers are
\* unbound and host notifiers are disabled.
C11_StopUnconditional ==
    StoppedFromActive => (~started /\ ~guest_notifiers /\ ~host_notifiers)

\* the step is a status change that asks for what the transport already is
ReentrantStatusStep ==
    /\ pc = "realized"
    /\ pc' = "realized"
    /\ prev'.kind = "set_status"
    /\ prev'.should_start = started
    /\ prev'.started = started
    /\ (prev' # prev \/ ops' # ops)

\* C12: a status change that asks to start while the transport is started,
\* or to stop while it is stopped, performs no notifier or transport
\* operation and leaves the whole device state unchanged.
C12_ReentrantNoOp ==
    [][ReentrantStatusStep
       => /\ ops' = <<>>
          /\ UNCHANGED <<pc, target_ppc64, conf, held, cache_host, errp, cache,
                         req, before, calls, started, host_notifiers,
                         guest_notifiers, chk>>]_vars

\* a start was asked of a started device and nothing was called
C12_Witness ==
    /\ prev.kind = "set_status"
    /\ prev.should_start
    /\ prev.started
    /\ started /\ host_notifiers /\ guest_notifiers
    /\ ops = <<>>

\* C13: whenever realize fails, at whatever step, nothing acquired during
\* it remains; in particular the window's reservation is not left
\* allocated.
C13_RealizeNoPartialState ==
    pc = "failed" => held = {}

\* s is 0 or a power of two not smaller than the page size
SizeWanted(s) == s = 0 \/ \E n \in 0..18 : s = PAGE * Pow2(n)

SizeError == "cache-size property must be a power of 2 no smaller than the page size"

\* ops still lists the calls of realize
RealizeJustRan == pc = "failed" \/ (pc = "realized" /\ prev = NoPrev)

\* the properties checked before the cache size are valid
SizeCheckReached ==
    /\ conf.chardev
    /\ conf.tag \in 1..TAG_SIZE
    /\ conf.num_request_queues > 0
    /\ conf.queue_size \in {Pow2(n) : n \in 0..10}

\* C14: realize accepts cache size s iff s is 0 or a power of two not
\* smaller than the page size; it rejects every other s with the
\* cache-size error before any window is reserved, reserves the window
\* exactly once when s is nonzero and accepted, and reserves none when s
\* is 0.
C14_SizeValidation ==
    (RealizeJustRan /\ SizeCheckReached)
    => IF SizeWanted(conf.cache_size)
       THEN /\ errp # SizeError
            /\ Cardinality(OpsAt("mmap")) = IF conf.cache_size = 0 THEN 0 ELSE 1
            /\ conf.cache_size = 0 => (cache_host = 0 /\ "cache" \notin held)
       ELSE /\ pc = "failed"
            /\ errp = SizeError
            /\ OpsAt("mmap") = {}
            /\ cache_host = 0
            /\ held = {}

\* a size that is at least a page but no power of two was rejected
C14_Witness ==
    /\ pc = "failed"
    /\ SizeCheckReached
    /\ conf.cache_size > PAGE
    /\ ~SizeWanted(conf.cache_size)
    /\ errp = SizeError

\* calls of the last unrealize that release a transport resource
ReleaseOps ==
    {k \in 1..Len(ops) :
        ops[k].op \in {"vhost_dev_cleanup", "vhost_user_cleanup",
                       "virtio_delete_queue", "g_free_req_vqs",
                       "virtio_cleanup", "g_free_vqs"}}

\* C15: destroy called from Active stops the transport before any
\* transport resource is released, and from Configured or Active it ends
\* with the window's reservation and all transport resources released.
C15_Destroy ==
    pc = "destroyed"
    => /\ prev.started
          => /\ ~started
             /\ \E t \in OpsAt("dev_stop") : \A k \in ReleaseOps : t < k
       /\ held = {}

\* C16: a batch changes the window's page mappings only while the
\* transport is started; a batch delivered to a realized device that is
\* not started changes no mapping.
C16_ActivationGating ==
    [][(pc = "realized" /\ ~started) => cache' = cache]_vars

\* the step is a status change of a realized device
StatusStep ==
    /\ pc = "realized"
    /\ pc' = "realized"
    /\ <<started, host_notifiers, guest_notifiers, ops, prev>>'
          # <<started, host_notifiers, guest_notifiers, ops, prev>>

\* C17: start, stop and no-op status changes leave the window's base, size
\* and every page mapping unchanged; over any sequence of status changes
\* and batches the window's base and size stay those set by realize.
C17_WindowSurvives ==
    [][/\ StatusStep => UNCHANGED <<cache, cache_host, conf>>
       /\ pc = "realized"
          => /\ cache_host' = cache_host
             /\ conf'.cache_size = conf.cache_size
             /\ DOMAIN cache' = DOMAIN cache]_vars

\* the transport was stopped while a page of the window was mapped to the
\* backend file, and the page is still mapped
C17_Witness ==
    /\ pc = "realized"
    /\ prev.kind = "set_status"
    /\ prev.started
    /\ ~started
    /\ cache_host # 0
    /\ \E p \in DOMAIN cache : cache[p].fd >= 0 /\ cache[p].prot # PROT_NONE

\* the request in flight was handled and issued a clear that the kernel
\* carried out
ClearsDone ==
    {k \in Calls("clear") : req.state = "done" /\ calls[k].err = 0}

\* page p of the window (in the next state) is covered by a place that the
\* handler of the step issued
PlacedInStep(p) ==
    /\ req'.kind = "map"
    /\ req'.state = "done"
    /\ req.state = "pending"
    /\ \E k \in 1..Len(calls') :
          /\ calls'[k].op = "place"
          /\ Covers(calls'[k].addr, calls'[k].len, p)

\* C18 as stated: after a successful realize with nonzero size every page
\* is no-access; a page leaves no-access only through a place issued by a
\* map batch; every page covered by a successful clear is no-access again.
C18_NoAccessBaseline ==
    /\ [](/\ pc = "realized"
             => \A p \in DOMAIN cache : cache[p].fd >= 0 \/ NoAccess(p)
          /\ \A k \in ClearsDone :
                \A p \in PagesOf(calls[k].addr, calls[k].len) : NoAccess(p))
    /\ [][\A p \in DOMAIN cache :
             (pc = "realized" /\ NoAccess(p) /\ cache'[p].prot # PROT_NONE)
             => PlacedInStep(p)]_vars

\* the protection of the window's anonymous memory: none, except read-only
\* in a build for PPC64 on Linux
BaselineProt == IF target_ppc64 THEN PROT_READ ELSE PROT_NONE

\* page p is anonymous memory with the baseline protection
Baseline(p) == cache[p].fd < 0 /\ cache[p].prot = BaselineProt

\* C18 amended: after a successful realize with nonzero size every page of
\* the window is anonymous memory with the baseline protection (no access,
\* or read-only in a build for PPC64 on Linux); a page leaves that state
\* only through a place issued by a map batch; every page covered by a
\* successful clear is in that state again.
C18_BaselineProt ==
    /\ [](/\ pc = "realized"
             => \A p \in DOMAIN cache :
                   cache[p].fd >= 0 \/ cache[p].prot = BaselineProt
          /\ \A k \in ClearsDone :
                \A p \in PagesOf(calls[k].addr, calls[k].len) : Baseline(p))
    /\ [][/\ (pc = "unrealized" /\ pc' = "realized")
             => /\ DOMAIN cache' = 0..((conf.cache_size \div PAGE) - 1)
                /\ \A p \in DOMAIN cache' : Baseline(p)'
          /\ \A p \in DOMAIN cache :
                (pc = "realized" /\ Baseline(p) /\ ~Baseline(p)')
                => PlacedInStep(p)]_vars

\* in a build for PPC64, a page that was mapped to the backend file has
\* been cleared and is readable anonymous memory
C18_Witness ==
    /\ target_ppc64
    /\ UnmapDone
    /\ ClearsDone # {}
    /\ \E p \in DOMAIN cache :
          /\ before[p].fd >= 0
          /\ Baseline(p)
          /\ cache[p].prot = PROT_READ

\* the unbounded sum cache_offset + len exceeds size: it is 2^64 or more,
\* or it fits 64 bits and is greater than size
SumExceeds(cache_offset, len, size) ==
    Carry4(cache_offset, len) = 1 \/ Lt64(size, Add64(cache_offset, len))

\* C19: the range test rejects an entry exactly when the unbounded sum
\* cache_offset + len exceeds size, for 64-bit cache_offset, nonzero len
\* and size; no wrapped sum is accepted.
C19_RangeTestSound ==
    chk.state = "checked"
    => (chk.rejected <=> SumExceeds(chk.cache_offset, chk.len, chk.size))

\* a sum that wraps to a value inside the window was rejected
C19_Witness ==
    /\ chk.state = "checked"
    /\ Carry4(chk.cache_offset, chk.len) = 1
    /\ Le64(Add64(chk.cache_offset, chk.len), chk.size)
    /\ ~IsZero64(Add64(chk.cache_offset, chk.len))
    /\ chk.rejected

\* C20: on a device configured with cache size 0, every map batch and
\* every unmap batch is rejected with -ENOENT and no remap call, place or
\* clear, of any length, is issued.
C20_NoWindow ==
    (conf.cache_size = 0 /\ req.kind # "none" /\ req.state = "done")
    => (req.res = -ENOENT /\ calls = <<>>)

\* positions in ops of the calls of the two given names that succeeded
DoneAt(on, off) == {k \in 1..Len(ops) : ops[k].op \in {on, off} /\ ops[k].ok}

\* the calls on/off that the last status change carried out continue an
\* alternation on, off, on, ... from a state where the notifiers were
\* (was = TRUE) or were not (was = FALSE) switched on
Alternates(on, off, was) ==
    \A k \in DoneAt(on, off) :
        LET earlier == Cardinality({j \in DoneAt(on, off) : j < k})
            isOn    == IF earlier % 2 = 0 THEN was ELSE ~was
        IN  ops[k].op = IF isOn THEN off ELSE on

\* C21: over any sequence of status changes, each of whose steps may fail,
\* host-notifier enable and disable calls alternate starting with enable,
\* and guest-notifier bind and unbind calls alternate starting with bind;
\* host notifiers are never enabled a second time without a disable in
\* between.  (Only calls that succeeded are counted.)
C21_NotifierPairing ==
    prev.kind # "none"
    => /\ Alternates("enable_host", "disable_host", prev.host_notifiers)
       /\ Alternates("bind_guest", "unbind_guest", prev.guest_notifiers)

====
